---- MODULE Spec2Model ----
(***************************************************************************)
(* Model of the ZAP "no container" scanner driver, scanners/zap/zap_none.py *)
(* (class ZapNone).  One ZapNone instance is modelled: its lifecycle state, *)
(* the position of the single thread inside run(), the files and            *)
(* directories it owns, and the side effects of the call in progress.       *)
(*                                                                          *)
(* setup(), postprocess(), cleanup() and _setup_ajax_spider() contain no    *)
(* blocking call and are one action each.  run() blocks on child processes  *)
(* and on downloads, so it is cut at every blocking point: "pc" is the      *)
(* blocking call, or the statement, the thread is at.                       *)
(***************************************************************************)
EXTENDS Integers, Sequences, FiniteSets, TLC

VARIABLES
    state,      \* self.state, a scanners.State value
    conf,       \* the configuration values zap_none.py reads with my_conf()
    path_map,   \* self.path_map, the host <-> container mapping built by __init__
    pc,         \* where the thread is: "idle" = no method in progress
    op,         \* the method called last (or in progress)
    pre,        \* self.state when that method was entered
    exc,        \* the exception that ended that method, "none" if none (so far)
    log,        \* side effects of that method so far, in order
    result,     \* the local "result" of the subprocess.run() that returned last
    verif,      \* the ExecutionResult of the verification run (line 286) of this run()
    env,        \* the host values _setup_ajax_spider() met in that call
    statefile,  \* whether <host_home_dir>/add-ons-state.xml exists
    tmpdirs,    \* the temporary directories of the instance that exist
    home,       \* what os.environ["HOME"] points at
    policy,     \* whether the active-scan policy was copied into the ZAP home
    did         \* <<method, state>>: the public methods that have returned normally on
                \* this instance, each with the self.state it returned in

vars == <<state, conf, path_map, pc, op, pre, exc, log, result, verif, env,
          statefile, tmpdirs, home, policy, did>>

----------------------------------------------------------------------------
(* Bounds of the model *)

\* child processes exit with a code in -MaxExit..MaxExit
MaxExit == 3
\* the captured stderr of the verification run is at most this many bytes
MaxStderrLen == 3

----------------------------------------------------------------------------
(* Values *)

States == {"UNCONFIGURED", "READY", "DONE", "ERROR", "PROCESSED", "CLEANEDUP"}

ExitCodes == (0 - MaxExit)..MaxExit

\* The bytes of the model.  The marker searched in stderr (line 289) is the
\* 35 byte text "The mandatory add-on was not found:"; it is shortened to two
\* bytes so that every position of it in a short stderr is enumerated.
Bytes == {"T", ":"}
Marker == <<"T", ":">>

RECURSIVE SeqsUpTo(_, _)
SeqsUpTo(S, n) ==
    IF n = 0 THEN {<<>>}
    ELSE LET shorter == SeqsUpTo(S, n - 1)
         IN shorter \cup {Append(s, b) : s \in {t \in shorter : Len(t) = n - 1}, b \in S}

Stderrs == SeqsUpTo(Bytes, MaxStderrLen)

NoResult == [returncode |-> 0, stderr |-> <<>>, of |-> "none"]
ExecutionResult(cmd, rc, err) == [returncode |-> rc, stderr |-> err, of |-> cmd]

Event(kind, what) == [ev |-> kind, what |-> what]

url_root == "https://github.com/zaproxy/zap-extensions/releases/download"
callhome_url == "https://github.com/zaproxy/zap-extensions/releases/download/callhome-v0.6.0/callhome-release-0.6.0.zap"
network_url == "https://github.com/zaproxy/zap-extensions/releases/download/network-v0.9.0/network-beta-0.9.0.zap"

\* a file or directory of the host that does not exist, or one holding x
Missing == [exists |-> FALSE, holds |-> <<>>]
Present(x) == [exists |-> TRUE, holds |-> <<x>>]
Content(f) == f.holds[1]

NoEnv == [platform |-> "none", shm |-> Missing, pid |-> Missing]

Confs == [activeScan : BOOLEAN, spiderAjax : BOOLEAN,
          updateAddons : BOOLEAN, additionalAddons : BOOLEAN]

----------------------------------------------------------------------------
(* The path mapping *)

\* what _create_temp_dir() returns for the two directories of __init__, and MODULE_DIR/scripts
temp_work_dir == "<tmp>/workdir"
temp_home_dir == "<tmp>/zaphomedir"
scripts_dir == "<MODULE_DIR>/scripts"

\* mutant: the container paths of the container backend are given
path_triples_container ==
    { <<"workdir", temp_work_dir, "/zap/results">>,
      <<"scripts", scripts_dir, "/zap/scripts">>,
      <<"zaphomedir", temp_home_dir, "/home/zap/.ZAP">> }

\* the (name, host path, logical path) triples of lines 55-60
path_triples ==
    { <<"workdir", temp_work_dir, temp_work_dir>>,
      <<"scripts", scripts_dir, scripts_dir>>,
      <<"zaphomedir", temp_home_dir, temp_home_dir>> }

\* make_mapping_for_scanner(): a mapping that is looked up by name
make_mapping_for_scanner(triples) ==
    [n \in {t[1] : t \in triples} |->
        LET t == CHOOSE t \in triples : t[1] = n
        IN [host_path |-> t[2], logical_path |-> t[3]]]

----------------------------------------------------------------------------
(* Initial state: the instance as __init__ leaves it *)

\* scanners.State.UNCONFIGURED, set by the parent constructor
\* __init__ creates the "workdir" and "zaphomedir" temporary directories
Init ==
    /\ conf \in Confs
    /\ path_map = make_mapping_for_scanner(path_triples)
    /\ state = "UNCONFIGURED"
    /\ pc = "idle"
    /\ op = "__init__"
    /\ pre = "UNCONFIGURED"
    /\ exc = "none"
    /\ log = <<>>
    /\ result = NoResult
    /\ verif = NoResult
    /\ env = NoEnv
    /\ statefile = FALSE
    /\ tmpdirs = {"workdir", "zaphomedir"}
    /\ home = "HOME"
    /\ policy = FALSE
    /\ did = {}

----------------------------------------------------------------------------
(* Entering and leaving a method *)

\* A method is entered: the record of the previous call is dropped.
Enter(name) ==
    /\ pc = "idle"
    /\ op' = name
    /\ pre' = state
    /\ result' = NoResult
    /\ verif' = NoResult

\* The method raises at its precondition check, before any side effect.
Reject(e) ==
    /\ exc' = e
    /\ log' = <<>>
    /\ env' = NoEnv
    /\ UNCHANGED <<state, conf, path_map, pc, statefile, tmpdirs, home, policy, did>>

----------------------------------------------------------------------------
(* setup() *)

\* super().setup(): provisioning by the parent class; a sub-step may set ERROR
ParentSetup(failed) == IF failed THEN "ERROR" ELSE "UNCONFIGURED"

\* what os.environ["HOME"] / os.access(..., W_OK) can answer in _create_home_if_needed
HomeStatus == {"writable", "readonly", "unset"}

\* mutant: setup() also accepted on an instance that is already READY
setup_precondition_ready(s) == s \in {"UNCONFIGURED", "READY"}

\* the precondition of setup(), line 79
setup_precondition(s) == s = "UNCONFIGURED"

\* mutant: READY even when a sub-step set ERROR
setup_advance_always(s) == "READY"

\* line 93-94: READY unless a sub-step set ERROR
setup_advance(s) == IF s # "ERROR" THEN "READY" ELSE s

setup ==
    /\ Enter("setup")
    /\ IF ~setup_precondition(state)
       THEN Reject("RuntimeError")
       ELSE \E failed \in BOOLEAN, h \in HomeStatus :
              LET s1 == ParentSetup(failed)
                  copy == IF conf.activeScan THEN <<Event("copy", "policy")>> ELSE <<>>
                  subst == IF h = "readonly" THEN <<Event("mkdtemp", "home")>> ELSE <<>>
              IN /\ state' = setup_advance(s1)
                 /\ policy' = conf.activeScan
                 /\ home' = IF h = "readonly" THEN "tmp_home" ELSE home
                 /\ tmpdirs' = IF h = "readonly" THEN tmpdirs \cup {"home"} ELSE tmpdirs
                 /\ log' = <<Event("super", IF failed THEN "setup:error" ELSE "setup:ok")>>
                             \o copy \o subst
                 /\ exc' = IF h = "unset" THEN "KeyError" ELSE "none"
                 /\ env' = NoEnv
                 /\ did' = IF h = "unset" THEN did ELSE did \cup {<<"setup", state'>>}
                 /\ UNCHANGED <<conf, path_map, pc, statefile>>

----------------------------------------------------------------------------
(* run() *)

\* mutant: run() also accepted after a scan that is DONE
run_precondition_done(s) == s \in {"READY", "DONE"}

\* the precondition of run(), line 104
run_precondition(s) == s = "READY"

\* bytes.find(sub): the lowest 0-based index at which sub occurs in s, -1 if none
find(s, sub) ==
    LET hits == {i \in 0..(Len(s) - Len(sub)) : SubSeq(s, i + 1, i + Len(sub)) = sub}
    IN IF hits = {} THEN 0 - 1 ELSE CHOOSE i \in hits : \A j \in hits : i <= j

\* the three branches of _check_plugin_status() on the verification result
viability(res) ==
    IF res.returncode = 0 THEN "healthy"
    ELSE IF find(res.stderr, Marker) > 0 THEN "recover"
    ELSE "warn"

\* Zap.get_update_command(): a command only if an update or additional addons are requested
get_update_command == conf.updateAddons \/ conf.additionalAddons

\* mutant: only exit code 1 is taken for a failure
classify_only_1(returncode) == IF returncode # 1 THEN "DONE" ELSE "ERROR"

\* the classification of the main command's exit code, lines 135-142
classify(returncode) == IF returncode \in {0, 2} THEN "DONE" ELSE "ERROR"

\* run() is entered; with the precondition met it goes on into
\* _check_plugin_status() and blocks in the verification run (line 286)
run ==
    /\ Enter("run")
    /\ IF ~run_precondition(state)
       THEN Reject("RuntimeError")
       ELSE /\ pc' = "verify"
            /\ log' = <<Event("exec", "verify")>>
            /\ exc' = "none"
            /\ env' = NoEnv
            /\ UNCHANGED <<state, conf, path_map, statefile, tmpdirs, home, policy, did>>

\* a step inside run(): the call record and the lifecycle state are kept
InRun(at) ==
    /\ pc = at
    /\ UNCHANGED <<conf, path_map, op, pre, env, tmpdirs, home, policy>>

\* the external tool writes add-ons-state.xml while one of its processes runs
tool_writes_statefile ==
    /\ pc \in {"verify", "installall", "update", "main"}
    /\ ~statefile
    /\ statefile' = TRUE
    /\ UNCHANGED <<state, conf, path_map, pc, op, pre, exc, log, result, verif, env,
                   tmpdirs, home, policy, did>>

\* the verification run exits (line 286) and its result is classified (287-314)
verify_exit ==
    /\ InRun("verify")
    /\ \E rc \in ExitCodes, err \in Stderrs :
         LET res == ExecutionResult("verify", rc, err)
             b == viability(res)
         IN /\ result' = res
            /\ verif' = res
            /\ pc' = IF b = "recover" THEN "download1" ELSE "remove1"
            /\ log' = log \o (CASE b = "healthy" -> <<>>
                                [] b = "recover" -> <<Event("download", callhome_url)>>
                                [] b = "warn" -> <<Event("warning", "incorrect state")>>)
    /\ UNCHANGED <<state, exc, statefile, did>>

\* anonymous_download() returns or raises; an exception leaves run() at once
download_done(at, next, nextEvent) ==
    /\ InRun(at)
    /\ \E ok \in BOOLEAN :
         IF ok
         THEN /\ pc' = next
              /\ log' = Append(log, nextEvent)
              /\ exc' = "none"
         ELSE /\ pc' = "idle"
              /\ log' = log
              /\ exc' = "DownloadError"
    /\ UNCHANGED <<state, result, verif, statefile, did>>

\* first download, lines 292-296
download1_done == download_done("download1", "download2", Event("download", network_url))

\* second download, lines 297-301, then the install-all command is launched (311)
download2_done == download_done("download2", "installall", Event("exec", "installall"))

\* the install-all command exits; its result is not looked at
installall_exit ==
    /\ InRun("installall")
    /\ \E rc \in ExitCodes : result' = ExecutionResult("installall", rc, <<>>)
    /\ pc' = "remove1"
    /\ UNCHANGED <<state, exc, log, verif, statefile, did>>

\* mutant: os.remove(statefile) with FileNotFoundError not caught
os_remove_uncaught(at, next) ==
    /\ InRun(at)
    /\ statefile' = FALSE
    /\ log' = Append(log, Event("remove", IF statefile THEN "deleted" ELSE "absent"))
    /\ pc' = IF statefile THEN next ELSE "idle"
    /\ exc' = IF statefile THEN exc ELSE "FileNotFoundError"
    /\ result' = NoResult
    /\ verif' = NoResult
    /\ UNCHANGED <<state, did>>

\* os.remove(statefile) with FileNotFoundError caught, lines 112-115 and 122-125.
\* The helper that returned just before is over: its locals (result, and the
\* verification result kept in verif) are gone.
os_remove(at, next) ==
    /\ InRun(at)
    /\ statefile' = FALSE
    /\ log' = Append(log, Event("remove", IF statefile THEN "deleted" ELSE "absent"))
    /\ pc' = next
    /\ result' = NoResult
    /\ verif' = NoResult
    /\ UNCHANGED <<state, exc, did>>

remove1 == os_remove("remove1", "plugins")

\* _handle_plugins() up to its subprocess.run(), lines 259-268
handle_plugins ==
    /\ InRun("plugins")
    /\ IF get_update_command
       THEN /\ pc' = "update"
            /\ log' = Append(log, Event("exec", "update"))
       ELSE /\ pc' = "remove2"
            /\ log' = log
    /\ UNCHANGED <<state, exc, result, verif, statefile, did>>

\* mutant: subprocess.run(check=True), a failed update pass raises
update_exit_fatal ==
    /\ InRun("update")
    /\ \E rc \in ExitCodes :
         /\ result' = ExecutionResult("update", rc, <<>>)
         /\ pc' = IF rc # 0 THEN "idle" ELSE "remove2"
         /\ exc' = IF rc # 0 THEN "CalledProcessError" ELSE exc
    /\ UNCHANGED <<state, log, verif, statefile, did>>

\* the update command exits, lines 268-272
update_exit ==
    /\ InRun("update")
    /\ \E rc \in ExitCodes :
         /\ result' = ExecutionResult("update", rc, <<>>)
         /\ log' = IF rc # 0 THEN Append(log, Event("warning", "addons")) ELSE log
    /\ pc' = "remove2"
    /\ UNCHANGED <<state, exc, verif, statefile, did>>

\* mutant: the second deletion is left out
remove2_missing ==
    /\ InRun("remove2")
    /\ pc' = "launch"
    /\ UNCHANGED <<state, exc, log, result, verif, statefile, did>>

remove2 == os_remove("remove2", "launch")

\* the main command is launched, lines 128-131
launch_main ==
    /\ InRun("launch")
    /\ pc' = "main"
    /\ log' = Append(log, Event("exec", "main"))
    /\ UNCHANGED <<state, exc, result, verif, statefile, did>>

\* mutant: a main command that failed is launched once more
main_exit_retry ==
    /\ InRun("main")
    /\ \E rc \in ExitCodes :
         /\ result' = ExecutionResult("main", rc, <<>>)
         /\ IF classify(rc) = "ERROR"
               /\ Len(SelectSeq(log, LAMBDA e : e = Event("exec", "main"))) < 2
            THEN /\ pc' = "main"
                 /\ log' = Append(log, Event("exec", "main"))
                 /\ UNCHANGED <<state, did>>
            ELSE /\ pc' = "idle"
                 /\ log' = log
                 /\ state' = classify(rc)
                 /\ did' = did \cup {<<"run", state'>>}
    /\ UNCHANGED <<exc, verif, statefile>>

\* mutant: a loop around the main command, left only on an exit code 0 or 2
main_exit_loop ==
    /\ InRun("main")
    /\ \E rc \in ExitCodes :
         /\ result' = ExecutionResult("main", rc, <<>>)
         /\ IF classify(rc) = "ERROR"
            THEN /\ pc' = "main"
                 /\ UNCHANGED <<state, did>>
            ELSE /\ pc' = "idle"
                 /\ state' = classify(rc)
                 /\ did' = did \cup {<<"run", state'>>}
    /\ UNCHANGED <<exc, log, verif, statefile>>

\* the main command exits and run() returns, lines 131-142
main_exit ==
    /\ InRun("main")
    /\ \E rc \in ExitCodes :
         /\ result' = ExecutionResult("main", rc, <<>>)
         /\ state' = classify(rc)
    /\ pc' = "idle"
    /\ did' = did \cup {<<"run", state'>>}
    /\ UNCHANGED <<exc, log, verif, statefile>>

----------------------------------------------------------------------------
(* postprocess() and cleanup() *)

\* super().postprocess(): result collection by the parent class; it may set ERROR
ParentPostprocess(s, failed) == IF failed THEN "ERROR" ELSE s

\* mutant: PROCESSED whatever the state is
postprocess_advance_always(s) == "PROCESSED"

\* lines 150-151: PROCESSED unless the state is ERROR
postprocess_advance(s) == IF ~(s = "ERROR") THEN "PROCESSED" ELSE s

\* postprocess() has no precondition on the state
postprocess ==
    /\ Enter("postprocess")
    /\ \E failed \in BOOLEAN :
         /\ state' = postprocess_advance(ParentPostprocess(state, failed))
         /\ log' = <<Event("super", IF failed THEN "postprocess:error" ELSE "postprocess:ok")>>
    /\ exc' = "none"
    /\ env' = NoEnv
    /\ did' = did \cup {<<"postprocess", state'>>}
    /\ UNCHANGED <<conf, path_map, pc, statefile, tmpdirs, home, policy>>

\* mutant: cleanup() also accepted before postprocess(), on a DONE scan
cleanup_precondition_done(s) == s \in {"PROCESSED", "DONE"}

\* the precondition of cleanup(), line 156
cleanup_precondition(s) == s = "PROCESSED"

\* super().cleanup(): the parent class removes the temporary directories; it may set ERROR
ParentCleanup(s, failed) == IF failed THEN "ERROR" ELSE s

\* lines 161-162: CLEANEDUP unless the state is ERROR
cleanup_advance(s) == IF ~(s = "ERROR") THEN "CLEANEDUP" ELSE s

cleanup ==
    /\ Enter("cleanup")
    /\ IF ~cleanup_precondition(state)
       THEN Reject("RuntimeError")
       ELSE /\ \E failed \in BOOLEAN :
                 /\ state' = cleanup_advance(ParentCleanup(state, failed))
                 /\ log' = <<Event("super", IF failed THEN "cleanup:error" ELSE "cleanup:ok"),
                             Event("rmtree", "tmpdirs")>>
            /\ tmpdirs' = {}
            /\ statefile' = FALSE
            /\ policy' = FALSE
            /\ exc' = "none"
            /\ env' = NoEnv
            /\ did' = did \cup {<<"cleanup", state'>>}
            /\ UNCHANGED <<conf, path_map, pc, home>>

----------------------------------------------------------------------------
(* _setup_ajax_spider(): the resource check before the regular Ajax setup *)

\* the pid ceiling above which no warning is given, line 196
PidThreshold == 10000

\* 1024 * 1024 * 1024, line 183
GiB == 1024 * 1024 * 1024

\* what platform.system() can answer
Platforms == {"Linux", "Darwin"}

\* disk_usage("/dev/shm/").total: Missing when /dev/shm does not exist
ShmTotals == {Missing} \cup {Present(t) : t \in {64 * 1024 * 1024, GiB - 1, GiB, GiB + 1}}

\* texts are sequences of characters
Digits == <<"0", "1", "2", "3", "4", "5", "6", "7", "8", "9">>
Whitespace == {" ", "\n", "\t"}
IsDigit(c) == \E i \in 1..Len(Digits) : Digits[i] = c
DigitValue(c) == (CHOOSE i \in 1..Len(Digits) : Digits[i] = c) - 1

\* the contents of /sys/fs/cgroup/pids.max met by the model: Missing when the file does not exist
PidTexts == {
    <<"m", "a", "x", "\n">>,
    <<"1", "0", "0", "0", "1", "\n">>,
    <<"1", "0", "0", "0", "0", "\n">>,
    <<"9", "9", "9", "9", "\n">>,
    <<"-", "1", "\n">>,
    <<"m", "a", "x", "i", "\n">>,
    <<>> }
PidFiles == {Missing} \cup {Present(t) : t \in PidTexts}

\* f.readline(): the text up to and including the first newline
RECURSIVE readline(_)
readline(text) ==
    IF text = <<>> THEN <<>>
    ELSE IF Head(text) = "\n" THEN <<"\n">>
    ELSE <<Head(text)>> \o readline(Tail(text))

\* str.rstrip(): trailing whitespace removed
RECURSIVE rstrip(_)
rstrip(text) ==
    IF text # <<>> /\ text[Len(text)] \in Whitespace
    THEN rstrip(SubSeq(text, 1, Len(text) - 1))
    ELSE text

\* str.lstrip(), as int() applies it
RECURSIVE lstrip(_)
lstrip(text) ==
    IF text # <<>> /\ Head(text) \in Whitespace THEN lstrip(Tail(text)) ELSE text

RECURSIVE digits_value(_)
digits_value(ds) ==
    IF ds = <<>> THEN 0
    ELSE 10 * digits_value(SubSeq(ds, 1, Len(ds) - 1)) + DigitValue(ds[Len(ds)])

\* int(text): surrounding whitespace, an optional sign, then decimal digits;
\* anything else is a ValueError (ok = FALSE)
int(text) ==
    LET t == rstrip(lstrip(text))
        signed == t # <<>> /\ Head(t) \in {"+", "-"}
        ds == IF signed THEN Tail(t) ELSE t
    IN IF ds = <<>> \/ \E i \in 1..Len(ds) : ~IsDigit(ds[i])
       THEN [ok |-> FALSE, val |-> 0]
       ELSE [ok |-> TRUE,
             val |-> IF signed /\ Head(t) = "-" THEN 0 - digits_value(ds) ELSE digits_value(ds)]

\* mutant: the warning is given below 1 GiB only, not at 1 GiB
shm_check_below(shm) ==
    <<Event("read", "/dev/shm/")>> \o
    (IF shm = Missing THEN <<Event("warning", "/dev/shm not present")>>
     ELSE IF Content(shm) < GiB THEN <<Event("warning", "insufficient shared memory")>>
     ELSE <<>>)

\* the shared memory check, lines 179-189
shm_check(shm) ==
    <<Event("read", "/dev/shm/")>> \o
    (IF shm = Missing THEN <<Event("warning", "/dev/shm not present")>>
     ELSE IF Content(shm) <= GiB THEN <<Event("warning", "insufficient shared memory")>>
     ELSE <<>>)

\* mutant: a limit of exactly 10,000 passes without a warning
pid_check_ge(file) ==
    <<Event("read", "pids.max")>> \o
    (IF file = Missing THEN <<>>
     ELSE LET pid_val == rstrip(readline(Content(file)))
          IN IF pid_val = <<"m", "a", "x">> THEN <<>>
             ELSE IF ~int(pid_val).ok THEN <<Event("warning", "unable to parse pids.max")>>
             ELSE IF int(pid_val).val >= PidThreshold THEN <<>>
             ELSE <<Event("warning", "pids.max too low")>>)

\* the pid limit check, lines 193-206
pid_check(file) ==
    <<Event("read", "pids.max")>> \o
    (IF file = Missing THEN <<>>
     ELSE LET pid_val == rstrip(readline(Content(file)))
          IN IF pid_val = <<"m", "a", "x">> THEN <<>>
             ELSE IF ~int(pid_val).ok THEN <<Event("warning", "unable to parse pids.max")>>
             ELSE IF int(pid_val).val > PidThreshold THEN <<>>
             ELSE <<Event("warning", "pids.max too low")>>)

\* super()._setup_ajax_spider(): the regular Ajax setup of the parent class
ParentSetupAjaxSpider == <<Event("super", "_setup_ajax_spider")>>

\* mutant: the early return on an unset flag is missing
ajax_effects_no_return(flag, e) ==
    (IF e.platform = "Linux" THEN shm_check(e.shm) \o pid_check(e.pid) ELSE <<>>)
    \o ParentSetupAjaxSpider

\* the side effects of _setup_ajax_spider() on a host, lines 172-209
ajax_effects(flag, e) ==
    IF flag = FALSE THEN <<>>
    ELSE (IF e.platform = "Linux" THEN shm_check(e.shm) \o pid_check(e.pid) ELSE <<>>)
         \o ParentSetupAjaxSpider

_setup_ajax_spider ==
    /\ Enter("_setup_ajax_spider")
    /\ \E p \in Platforms, shm \in ShmTotals, file \in PidFiles :
         /\ env' = [platform |-> p, shm |-> shm, pid |-> file]
         /\ log' = ajax_effects(conf.spiderAjax, env')
    /\ exc' = "none"
    /\ UNCHANGED <<state, conf, path_map, pc, statefile, tmpdirs, home, policy, did>>

Next ==
    \/ setup
    \/ run
    \/ tool_writes_statefile
    \/ verify_exit
    \/ download1_done
    \/ download2_done
    \/ installall_exit
    \/ remove1
    \/ handle_plugins
    \/ update_exit
    \/ remove2
    \/ launch_main
    \/ main_exit
    \/ postprocess
    \/ cleanup

\* the lifecycle: every sequence of calls of the four public methods
Spec == Init /\ [][Next]_vars

\* the steps taken inside a call of run(): the exits of its child processes,
\* the ends of its downloads, and its own statements between them
RunStep ==
    \/ verify_exit
    \/ download1_done
    \/ download2_done
    \/ installall_exit
    \/ remove1
    \/ handle_plugins
    \/ update_exit
    \/ remove2
    \/ launch_main
    \/ main_exit

\* the lifecycle on a host where every child process launched by run() exits
\* in the end and every download returns or fails: run() is synchronous
\* code of one thread, so a step of it that can be taken is taken
SpecFair == Init /\ [][Next]_vars /\ WF_vars(RunStep)

\* The resource check is called by the parent class and by the test on an
\* instance whose self.state it never reads: every value of self.state is drawn.
InitAjax ==
    /\ conf \in Confs
    /\ path_map = make_mapping_for_scanner(path_triples)
    /\ state \in States
    /\ pc = "idle"
    /\ op = "__init__"
    /\ pre = state
    /\ exc = "none"
    /\ log = <<>>
    /\ result = NoResult
    /\ verif = NoResult
    /\ env = NoEnv
    /\ statefile = FALSE
    /\ tmpdirs = {"workdir", "zaphomedir"}
    /\ home = "HOME"
    /\ policy = FALSE
    /\ did = {}

NextAjax == _setup_ajax_spider

\* the resource check alone, on every host of the model
SpecAjax == InitAjax /\ [][NextAjax]_vars

----------------------------------------------------------------------------
(* Side effects read off the log of a call *)

EventsOf(kind) == SelectSeq(log, LAMBDA e : e.ev = kind)
Whats(kind) == [i \in 1..Len(EventsOf(kind)) |-> EventsOf(kind)[i].what]
Count(kind) == Len(EventsOf(kind))

----------------------------------------------------------------------------
(* The sequencing checks of the public methods *)

\* C1: run() called in any state other than READY raises the sequencing error
\* (RuntimeError) with nothing launched, downloaded or deleted - the log of the
\* call is empty, the thread is not inside run() - and with the state, the
\* state file and the temporary directories as they were.
C1_RunOutOfSequence ==
    [][(pc = "idle" /\ op' = "run" /\ state # "READY")
         => /\ exc' = "RuntimeError"
            /\ pc' = "idle"
            /\ log' = <<>>
            /\ UNCHANGED <<state, statefile, tmpdirs, home, policy, did>>]_vars

\* a second run() after a first one that ended DONE was rejected
C1_Witness ==
    /\ op = "run" /\ pre = "DONE" /\ <<"run", "DONE">> \in did
    /\ exc = "RuntimeError" /\ state = "DONE"

\* C2: cleanup() called in any state other than PROCESSED raises the sequencing
\* error, removes no temporary directory and leaves the state as it was.
C2_CleanupOutOfSequence ==
    [][(pc = "idle" /\ op' = "cleanup" /\ state # "PROCESSED")
         => /\ exc' = "RuntimeError"
            /\ log' = <<>>
            /\ UNCHANGED <<state, tmpdirs, statefile, policy, did>>]_vars

\* cleanup() before postprocess(), on a DONE scan, was rejected and the
\* temporary directories are still there
C2_Witness ==
    /\ op = "cleanup" /\ pre = "DONE" /\ exc = "RuntimeError"
    /\ \A d \in did : d[1] # "postprocess"
    /\ state = "DONE" /\ {"workdir", "zaphomedir"} \subseteq tmpdirs

\* C3: setup() called in any state other than UNCONFIGURED raises the
\* sequencing error before the parent setup, the policy copy and the HOME
\* substitution, and leaves the state as it was.
C3_SetupOutOfSequence ==
    [][(pc = "idle" /\ op' = "setup" /\ state # "UNCONFIGURED")
         => /\ exc' = "RuntimeError"
            /\ log' = <<>>
            /\ UNCHANGED <<state, policy, home, tmpdirs, did>>]_vars

\* a second setup() after a successful one was rejected
C3_Witness ==
    /\ op = "setup" /\ pre = "READY" /\ <<"setup", "READY">> \in did
    /\ exc = "RuntimeError" /\ state = "READY"

\* C4: when run(), entered in READY, has returned normally, the state is DONE
\* if the main command exited with 0 or 2 and ERROR for every other exit code.
C4_ExitCodeClassification ==
    (op = "run" /\ pre = "READY" /\ pc = "idle" /\ exc = "none")
      => /\ result.of = "main"
         /\ result.returncode \in {0, 2} => state = "DONE"
         /\ result.returncode \notin {0, 2} => state = "ERROR"

\* run() returned after a main command that exited with a negative code
C4_Witness ==
    /\ op = "run" /\ pre = "READY" /\ pc = "idle" /\ exc = "none"
    /\ result.of = "main" /\ result.returncode < 0 /\ state = "ERROR"

----------------------------------------------------------------------------
(* The later phases after an ERROR *)

\* C5: after run() ended in ERROR, postprocess() and then cleanup() on the
\* scanner in ERROR remove the temporary directories.
C5_CleanupAfterError ==
    (/\ op = "cleanup" /\ pre = "ERROR"
     /\ <<"run", "ERROR">> \in did
     /\ <<"postprocess", "ERROR">> \in did)
      => tmpdirs = {}

\* C6: postprocess() on a DONE or ERROR scanner never raises and delegates to
\* the result collection of the parent class once; from ERROR the state stays
\* ERROR, from DONE it becomes PROCESSED unless the delegate set ERROR.
C6_PostprocessRegardless ==
    (op = "postprocess" /\ pre \in {"DONE", "ERROR"})
      => /\ exc = "none"
         /\ Len(log) = 1 /\ log[1].ev = "super"
         /\ log[1].what \in {"postprocess:ok", "postprocess:error"}
         /\ pre = "ERROR" => state = "ERROR"
         /\ (pre = "DONE" /\ log[1].what = "postprocess:ok") => state = "PROCESSED"
         /\ (pre = "DONE" /\ log[1].what = "postprocess:error") => state = "ERROR"

\* postprocess() ran its delegation on a scanner whose run() ended in ERROR
C6_Witness ==
    /\ op = "postprocess" /\ pre = "ERROR" /\ <<"run", "ERROR">> \in did
    /\ log = <<Event("super", "postprocess:ok")>> /\ state = "ERROR" /\ exc = "none"

----------------------------------------------------------------------------
(* The viability check and the stale state file *)

\* sub occurs in s at some position, the first included
Contains(s, sub) ==
    \E i \in 1..Len(s) : i + Len(sub) - 1 <= Len(s) /\ SubSeq(s, i, i + Len(sub) - 1) = sub

\* C7: when the viability check has returned, a verification run that exited
\* non-zero with the marker anywhere in its stderr was followed by exactly the
\* two downloads of the fixed URLs and then one install-all command; one that
\* exited 0 was followed by no download and no install-all command.
C7_ViabilityRecovery ==
    (op = "run" /\ pc = "remove1" /\ verif.of = "verify")
      => /\ (verif.returncode # 0 /\ Contains(verif.stderr, Marker))
              => log = <<Event("exec", "verify"), Event("download", callhome_url),
                         Event("download", network_url), Event("exec", "installall")>>
         /\ verif.returncode = 0 => log = <<Event("exec", "verify")>>

\* C8: a deletion of the stale state file raises nothing, leaves the file
\* absent and the scanner state as it was, and run() goes on: after the first
\* deletion to the addon pass, after the second to the launch of the main command.
C8_StateFileDeletion ==
    (op = "run" /\ log # <<>> /\ log[Len(log)].ev = "remove")
      => /\ ~statefile
         /\ exc = "none"
         /\ state = pre
         /\ Count("remove") = 1 => pc \in {"plugins", "remove2"}
         /\ Count("remove") = 2 => pc = "launch"
         /\ Count("remove") \in {1, 2}

\* the file was there at the first deletion and absent at the second
C8_Witness ==
    /\ op = "run" /\ pc = "launch" /\ Whats("remove") = <<"deleted", "absent">>
    /\ ~statefile /\ exc = "none" /\ state = "READY"

----------------------------------------------------------------------------
(* The resource check *)

Warnings == Count("warning")

\* the case of C9: Linux, /dev/shm of at most 1 GiB, the Ajax spider configured
SmallShmCase ==
    /\ op = "_setup_ajax_spider" /\ conf.spiderAjax # FALSE
    /\ env.platform = "Linux" /\ env.shm.exists /\ Content(env.shm) <= GiB

\* C9 as claimed: exactly one warning, whatever pids.max holds, state unchanged.
C9_ExactlyOneWarning ==
    SmallShmCase => (Warnings = 1 /\ state = pre)

\* the contents of pids.max of the model that are a number at or below 10,000,
\* or neither "max" nor a number
PidLowOrUnparsable ==
    {Present(<<"1", "0", "0", "0", "0", "\n">>), Present(<<"9", "9", "9", "9", "\n">>),
     Present(<<"-", "1", "\n">>), Present(<<"m", "a", "x", "i", "\n">>), Present(<<>>)}

\* C9 (amended): exactly one shared memory warning, and one more warning,
\* about the pid limit, exactly when pids.max holds a number at or below
\* 10,000 or unparsable text; the state is unchanged and nothing is raised.
C9_OneShmWarning ==
    SmallShmCase
      => /\ Cardinality({i \in 1..Len(log) :
                           log[i] = Event("warning", "insufficient shared memory")}) = 1
         /\ Warnings = IF env.pid \in PidLowOrUnparsable THEN 2 ELSE 1
         /\ state = pre
         /\ exc = "none"

\* /dev/shm of exactly 1 GiB and a pid limit of exactly 10,000: two warnings
C9_Witness ==
    /\ SmallShmCase /\ env.shm = Present(GiB)
    /\ env.pid = Present(<<"1", "0", "0", "0", "0", "\n">>)
    /\ Warnings = 2 /\ state = pre

\* C10: with the Ajax spider not configured the check reads neither /dev/shm
\* nor pids.max, warns of nothing, does nothing else and leaves the state.
C10_NoOpWhenUnset ==
    (op = "_setup_ajax_spider" /\ conf.spiderAjax = FALSE)
      => /\ log = <<>>
         /\ state = pre
         /\ exc = "none"

\* the check was called, flag unset, on a Linux host short of shared memory and pids
C10_Witness ==
    /\ op = "_setup_ajax_spider" /\ conf.spiderAjax = FALSE
    /\ env.platform = "Linux" /\ env.shm = Present(64 * 1024 * 1024)
    /\ env.pid = Present(<<"9", "9", "9", "9", "\n">>)
    /\ log = <<>> /\ state = "DONE"

----------------------------------------------------------------------------
(* The path mapping and the order of the phases *)

\* the names the command construction and the file copies look up
PathNames == {"workdir", "scripts", "zaphomedir"}

\* C11: in every reachable state a lookup of workdir, scripts and zaphomedir
\* succeeds and gives a host path equal to the logical path, and no step of
\* setup(), run(), postprocess() or cleanup() assigns the mapping.
C11_PathMapping ==
    /\ [](\A n \in PathNames :
            /\ n \in DOMAIN path_map
            /\ path_map[n].host_path = path_map[n].logical_path)
    /\ [][path_map' = path_map]_vars

\* the mapping still answers after the whole lifecycle, the directories removed
C11_Witness ==
    /\ state = "CLEANEDUP" /\ op = "cleanup" /\ tmpdirs = {}
    /\ DOMAIN path_map = PathNames
    /\ path_map["zaphomedir"].host_path = temp_home_dir

\* the order of the phases; ERROR has no place in it
Rank(s) ==
    CASE s = "UNCONFIGURED" -> 0
      [] s = "READY" -> 1
      [] s = "DONE" -> 2
      [] s = "PROCESSED" -> 3
      [] s = "CLEANEDUP" -> 4
      [] OTHER -> 0 - 1

\* C12: every change of the state is a move to a later phase of
\* UNCONFIGURED < READY < DONE < PROCESSED < CLEANEDUP, or an entry into ERROR.
C12_StrictlyForward ==
    [][state' # state
         => \/ state' = "ERROR"
            \/ (state # "ERROR" /\ Rank(state) < Rank(state'))]_vars

Completed(method) == \E d \in did : d[1] = method

\* C13: PROCESSED and CLEANEDUP, and the removal of the temporary directories,
\* are reached only after setup() and run() have both returned on the
\* instance; postprocess() entered in UNCONFIGURED or READY does not end in PROCESSED.
C13_PhasesInOrder ==
    /\ (state \in {"PROCESSED", "CLEANEDUP"} \/ tmpdirs = {})
         => (Completed("setup") /\ Completed("run"))
    /\ (op = "postprocess" /\ pre \in {"UNCONFIGURED", "READY"}) => state # "PROCESSED"

\* C14: a step taken in ERROR ends in ERROR, and setup() ends in ERROR when
\* the provisioning of its parent class has set ERROR.
C14_ErrorAbsorbing ==
    /\ [][state = "ERROR" => state' = "ERROR"]_vars
    /\ []((op = "setup" /\ log # <<>> /\ log[1] = Event("super", "setup:error"))
            => state = "ERROR")

\* run() ended in ERROR, postprocess() was called since, and cleanup() has
\* just been refused: the state is ERROR still
C14_Witness ==
    /\ <<"run", "ERROR">> \in did /\ <<"postprocess", "ERROR">> \in did
    /\ op = "cleanup" /\ pre = "ERROR" /\ exc = "RuntimeError" /\ state = "ERROR"

----------------------------------------------------------------------------
(* Inside run() *)

\* C15: a remediation download that fails ends run() with no install-all, no
\* update and no main command launched in that call, and with the state ERROR.
C15_DownloadFailureFatal ==
    (op = "run" /\ exc = "DownloadError")
      => /\ pc = "idle"
         /\ \A i \in 1..Len(log) : log[i].ev # "exec" \/ log[i].what = "verify"
         /\ state = "ERROR"

\* the steps of a call of run(), warnings left out
StepOf(e) ==
    CASE e = Event("exec", "verify") -> "verify"
      [] e = Event("download", callhome_url) -> "download1"
      [] e = Event("download", network_url) -> "download2"
      [] e = Event("exec", "installall") -> "installall"
      [] e.ev = "remove" -> "remove"
      [] e = Event("exec", "update") -> "update"
      [] e = Event("exec", "main") -> "main"
      [] OTHER -> "other"
NotWarning(e) == e.ev # "warning"
Steps == [i \in 1..Len(SelectSeq(log, NotWarning)) |-> StepOf(SelectSeq(log, NotWarning)[i])]

\* the fixed order: the viability check with or without its recovery, the
\* first deletion, the update pass if any, the second deletion, the main command
FullRuns ==
    {check \o <<"remove">> \o update \o <<"remove", "main">> :
        check \in {<<"verify">>, <<"verify", "download1", "download2", "installall">>},
        update \in {<<>>, <<"update">>}}
IsPrefix(a, b) == Len(a) <= Len(b) /\ SubSeq(b, 1, Len(a)) = a

\* C16: in a call of run() the steps taken so far are a prefix of the fixed
\* order; the state stays READY until the main command has exited, and is
\* changed only then; the state file is absent when the main command is launched.
C16_RunOrder ==
    /\ []((op = "run" /\ pre = "READY")
            => /\ \E full \in FullRuns : IsPrefix(Steps, full)
               /\ pc # "idle" => state = "READY"
               /\ state # "READY" => (pc = "idle" /\ Steps \in FullRuns))
    /\ [][(log' # log /\ log' # <<>> /\ log'[Len(log')] = Event("exec", "main"))
            => (~statefile /\ ~statefile' /\ Steps' \in FullRuns)]_vars

\* the tool recreated the state file during the recovery and during the update
\* pass; both deletions removed it and the main command has been launched
C16_Witness ==
    /\ op = "run" /\ pc = "main" /\ state = "READY" /\ ~statefile
    /\ Steps = <<"verify", "download1", "download2", "installall",
                 "remove", "update", "remove", "main">>
    /\ Whats("remove") = <<"deleted", "deleted">>

\* C17 as claimed: whatever fails before it - a remediation download, the
\* install-all command, the update pass - a call of run() accepted in READY
\* ends only after the main command was launched, in the state its exit code gives.
C17_AlwaysReachesMain ==
    (op = "run" /\ pre = "READY" /\ pc = "idle")
      => /\ Steps \in FullRuns
         /\ result.of = "main"
         /\ state = IF result.returncode \in {0, 2} THEN "DONE" ELSE "ERROR"

\* C17 (amended): run() goes on after the install-all command and after the
\* update pass whatever their exit code, and when it returns the state is the
\* one the exit code of the main command gives; only a remediation download
\* that fails ends run() with its exception, before the install-all command,
\* the update pass and the main command.
C17_ProceedsAfterExitCodes ==
    /\ (op = "run" /\ result.of = "installall") => (pc = "remove1" /\ exc = "none")
    /\ (op = "run" /\ result.of = "update")
         => /\ pc = "remove2" /\ exc = "none"
            /\ result.returncode # 0 <=> log[Len(log)] = Event("warning", "addons")
    /\ (op = "run" /\ pre = "READY" /\ pc = "idle" /\ exc # "DownloadError")
         => /\ exc = "none"
            /\ Steps \in FullRuns
            /\ result.of = "main"
            /\ state = IF result.returncode \in {0, 2} THEN "DONE" ELSE "ERROR"
    /\ (op = "run" /\ exc = "DownloadError")
         => /\ pc = "idle"
            /\ \A i \in 1..Len(Steps) : Steps[i] \in {"verify", "download1", "download2"}

\* the recovery ran, the update pass exited non-zero, and run() returned DONE
\* on the exit code 0 of the main command
C17_Witness ==
    /\ op = "run" /\ pc = "idle" /\ exc = "none" /\ state = "DONE"
    /\ Steps = <<"verify", "download1", "download2", "installall",
                 "remove", "update", "remove", "main">>
    /\ \E i \in 1..Len(log) : log[i] = Event("warning", "addons")
    /\ result = ExecutionResult("main", 0, <<>>)

NumSteps(step) == Cardinality({i \in 1..Len(Steps) : Steps[i] = step})

\* C18: in a call of run() the verification command is launched once, each
\* download, the install-all command, the update command and the main command
\* at most once, the update command not at all when neither an update nor
\* additional addons are requested; a verification run that exited non-zero
\* without the marker in its stderr is followed by no download and no install-all.
C18_NoRetry ==
    (op = "run" /\ pre = "READY")
      => /\ NumSteps("verify") = 1
         /\ \A step \in {"download1", "download2", "installall", "update", "main"} :
              NumSteps(step) <= 1
         /\ (~conf.updateAddons /\ ~conf.additionalAddons) => NumSteps("update") = 0
         /\ (verif.of = "verify" /\ pc = "remove1"
               /\ verif.returncode # 0 /\ ~Contains(verif.stderr, Marker))
              => (Count("download") = 0 /\ NumSteps("installall") = 0)

\* the install-all command and the update pass ran once each, the main command
\* exited 1, and run() returned ERROR without a second launch
C18_Witness ==
    /\ op = "run" /\ pc = "idle" /\ state = "ERROR"
    /\ result = ExecutionResult("main", 1, <<>>)
    /\ NumSteps("installall") = 1 /\ NumSteps("update") = 1 /\ NumSteps("main") = 1

----------------------------------------------------------------------------
(* The resource check is advisory *)

PidWarnings ==
    Cardinality({i \in 1..Len(log) :
                   log[i] \in {Event("warning", "pids.max too low"),
                               Event("warning", "unable to parse pids.max")}})

\* C19: with the Ajax spider configured on Linux, whatever /dev/shm and
\* pids.max hold, the check raises nothing, leaves the state as it was, reads
\* both and ends with the regular Ajax setup of the parent class; it gives one
\* warning about the pid limit when pids.max holds a number at or below 10,000
\* or unparsable text, and none when the file is missing, holds "max" or a
\* number above 10,000.
C19_AdvisoryOnly ==
    (op = "_setup_ajax_spider" /\ conf.spiderAjax # FALSE /\ env.platform = "Linux")
      => /\ exc = "none"
         /\ state = pre
         /\ pc = "idle"
         /\ Whats("read") = <<"/dev/shm/", "pids.max">>
         /\ Whats("super") = <<"_setup_ajax_spider">>
         /\ log[Len(log)] = Event("super", "_setup_ajax_spider")
         /\ PidWarnings = IF env.pid \in PidLowOrUnparsable THEN 1 ELSE 0

\* no /dev/shm and a pid limit of exactly 10,000: two warnings, and the
\* regular Ajax setup ran on an instance in ERROR, which stays in ERROR
C19_Witness ==
    /\ op = "_setup_ajax_spider" /\ conf.spiderAjax # FALSE /\ env.platform = "Linux"
    /\ env.shm = Missing /\ env.pid = Present(<<"1", "0", "0", "0", "0", "\n">>)
    /\ PidWarnings = 1 /\ Warnings = 2
    /\ log[Len(log)] = Event("super", "_setup_ajax_spider")
    /\ state = "ERROR" /\ pre = "ERROR"

----------------------------------------------------------------------------
(* Termination of run() *)

\* the points where run() waits for a child process
ChildWaits == {"verify", "installall", "update", "main"}

\* C20: when every child process exits and every download ends, a call of
\* run() accepted in READY returns in the end, in DONE or ERROR, or is left
\* by an exception; until then the state is READY, and run() leaves the wait
\* for a child process by nothing but the exit of that process - with no
\* timeout, it waits as long as the process runs.
C20_RunTerminates ==
    /\ (op = "run" /\ pc # "idle")
         ~> (op = "run" /\ pc = "idle"
               /\ \/ exc = "none" /\ state \in {"DONE", "ERROR"}
                  \/ exc = "DownloadError")
    /\ []((op = "run" /\ pc # "idle") => (state = "READY" /\ exc = "none"))
    /\ [][(pc \in ChildWaits /\ pc' # pc) => result'.of = pc]_vars

\* run() waits for the main command, the state still READY, after the
\* recovery and the update pass
C20_Witness ==
    /\ op = "run" /\ pc = "main" /\ state = "READY" /\ exc = "none"
    /\ result = NoResult
    /\ NumSteps("installall") = 1 /\ NumSteps("update") = 1

====
